---- MODULE Spec2Model ----
(***************************************************************************)
(* BaseAuraV2: the ERC-721 tier registry of base-aura.                     *)
(*                                                                         *)
(* The registry storage is modelled variable by variable.  A mint issued   *)
(* by a contract account is split at the external call that _safeMint      *)
(* makes to the recipient (onERC721Received): everything before the call   *)
(* is one step, the callback may issue further registry calls, and what    *)
(* follows the call is another step.  A call that reverts leaves the       *)
(* storage as it was when the call started: the EVM discards every write   *)
(* of the reverted call, those of the calls its callback made included.    *)
(***************************************************************************)
EXTENDS Integers, Sequences, FiniteSets, TLC

VARIABLES
    nextTokenId,              \* uint256 _nextTokenId
    targetAddressToTokenId,   \* mapping(address => uint256)
    targetAddressMinted,      \* mapping(address => bool)
    tokenToTargetAddress,     \* mapping(uint256 => address)
    tokenAuras,               \* mapping(uint256 => string)
    baseImageURI,             \* string public baseImageURI
    owners,                   \* ERC721 _owners
    operatorApprovals,        \* ERC721 _operatorApprovals
    contractOwner,            \* Ownable _owner
    events,                   \* AuraMinted / AuraUpdated, in emission order
    setLabel,                 \* history: label of the last successful set per token
    stack,                    \* mint calls suspended in the recipient callback
    outcome,                  \* result of the last call
    race,                     \* concurrently submitted mint calls not yet serialized
    app,                      \* App.jsx: the useState values of the component
    isConnected,              \* App.jsx: useAccount().isConnected
    scan,                     \* App.jsx: the handleScan call waiting on its awaits
    mintTx,                   \* App.jsx: the useWriteContract hook of mint
    mempool,                  \* mint transactions signed and not yet executed
    lastScan,                 \* history: the scan started last and its classification
    classified,               \* a transaction count and the tier computed for it
    upgrade,                  \* App.jsx: an existing NFT, a scan result and the update decided for them
    fetch,                    \* App.jsx: a fetchTxCount call and the requests it has made
    api                       \* main.jsx: a request to the transaction-count handler

\* ---------------------------------------------------------------- bounds
\* successful mutations (mints and tier updates) explored per behaviour
MaxEvents == 2

\* longest transaction list an explorer query returns
MaxListLen == 2

\* ------------------------------------------------------------- addresses
ZERO      == "0x0"
EOAs      == {"e1"}
Contracts == {"k1"}
Addresses == EOAs \cup Contracts
AllAddr   == Addresses \cup {ZERO}
Targets   == {"e1", "k1"}
Deployer  == "e1"
Operators == {"e1"}
RaceTarget == "e1"

\* tokens explored: one per modelled target address; a suspended mint holds
\* one token, so the nesting of recipient callbacks is bounded by the same number
MaxTokens == Cardinality(Targets)
MaxDepth  == MaxTokens
TokenIds  == 0 .. MaxTokens
URIs      == {"https://x/", ""}

\* ------------------------------------------------------------ aura types
FIRE_WHALE   == "fire"
WAVE_RIDER   == "water"
TIDE_WATCHER == "tide"
ROCK_HOLDER  == "rock"
AuraInputs   == {FIRE_WHALE, ROCK_HOLDER, ""}

\* mutant: the lowest tier is not accepted
IsValidAura_NoRock(aura) ==
    \/ aura = FIRE_WHALE
    \/ aura = WAVE_RIDER
    \/ aura = TIDE_WATCHER

IsValidAura(aura) ==
    \/ aura = FIRE_WHALE
    \/ aura = WAVE_RIDER
    \/ aura = TIDE_WATCHER
    \/ aura = ROCK_HOLDER

\* ---------------------------------------------------------------- state
storage == <<nextTokenId, targetAddressToTokenId, targetAddressMinted,
             tokenToTargetAddress, tokenAuras, baseImageURI, owners,
             operatorApprovals, contractOwner, events, setLabel>>

vars == <<nextTokenId, targetAddressToTokenId, targetAddressMinted,
          tokenToTargetAddress, tokenAuras, baseImageURI, owners,
          operatorApprovals, contractOwner, events, setLabel, stack, outcome, race,
          app, isConnected, scan, mintTx, mempool, lastScan, classified,
          upgrade, fetch, api>>

\* what lives outside the registry
client   == <<app, isConnected, scan, mintTx, mempool, lastScan, classified,
               upgrade, fetch, api>>
offchain == <<race, client>>

Revert(err) ==
    /\ outcome' = err
    /\ UNCHANGED storage
    /\ UNCHANGED stack

Quiescent == stack = <<>>

\* Inside a recipient callback only contract accounts can issue calls.
CanCall(caller) ==
    IF Quiescent THEN caller \in Addresses ELSE caller \in Contracts

InitStorage ==
    /\ nextTokenId = 0
    /\ targetAddressToTokenId = [a \in AllAddr |-> 0]
    /\ targetAddressMinted = [a \in AllAddr |-> FALSE]
    /\ tokenToTargetAddress = [t \in TokenIds |-> ZERO]
    /\ tokenAuras = [t \in TokenIds |-> ""]
    /\ baseImageURI \in URIs
    /\ owners = [t \in TokenIds |-> ZERO]
    /\ operatorApprovals = [a \in Addresses |-> {}]
    /\ contractOwner = Deployer
    /\ events = <<>>
    /\ setLabel = [t \in TokenIds |-> ""]
    /\ stack = <<>>
    /\ outcome = "deployed"

NoRace == {}

\* ---------------------------------------------------------- client state
null   == [null |-> TRUE]
NoAura == "null"

\* the useState initial values
InitApp ==
    [targetAddress |-> "", scanResult |-> null, isLoading |-> FALSE,
     error |-> "", existingNft |-> null]

IdleWrite == [status |-> "idle", args |-> <<>>]

InitClient ==
    /\ app = InitApp
    /\ isConnected = FALSE
    /\ scan = null
    /\ mintTx = IdleWrite
    /\ mempool = {}
    /\ lastScan = null

\* no call of the pure parts of the client and of the API is under way
InitIdle ==
    /\ upgrade = null
    /\ fetch = null
    /\ api = null

Init ==
    /\ InitStorage
    /\ race = NoRace
    /\ InitClient
    /\ classified = null
    /\ InitIdle

\* ----------------------------------------------------------------- mint
AuraMinted(minter, targetAddress, tokenId, auraType) ==
    [event |-> "AuraMinted", minter |-> minter, targetAddress |-> targetAddress,
     tokenId |-> tokenId, auraType |-> auraType]

\* mutant: the old and the new label change places
AuraUpdated_Swapped(tokenId, oldAura, newAura) ==
    [event |-> "AuraUpdated", tokenId |-> tokenId, oldAura |-> newAura,
     newAura |-> oldAura]

AuraUpdated(tokenId, oldAura, newAura) ==
    [event |-> "AuraUpdated", tokenId |-> tokenId, oldAura |-> oldAura,
     newAura |-> newAura]

\* mutant: the duplicate-target require is dropped
MintRequireUnminted_Dropped(targetAddress) == TRUE

MintRequireUnminted(targetAddress) == ~targetAddressMinted[targetAddress]

\* mutant: the counter skips an ID
AllocateId_Skip(n) == n + 2

AllocateId(n) == n + 1

\* mutant: the label is written to every token up to the new one
MintStores_Relabel(caller, targetAddress, auraType, tokenId) ==
    /\ tokenAuras' = [t \in TokenIds |->
                         IF t <= tokenId THEN auraType ELSE tokenAuras[t]]
    /\ targetAddressToTokenId' = [targetAddressToTokenId EXCEPT ![targetAddress] = tokenId]
    /\ targetAddressMinted' = [targetAddressMinted EXCEPT ![targetAddress] = TRUE]
    /\ tokenToTargetAddress' = [tokenToTargetAddress EXCEPT ![tokenId] = targetAddress]
    /\ events' = Append(events, AuraMinted(caller, targetAddress, tokenId, auraType))

\* lines 62-67: the stores and the event that follow _safeMint
MintStores(caller, targetAddress, auraType, tokenId) ==
    /\ tokenAuras' = [tokenAuras EXCEPT ![tokenId] = auraType]
    /\ targetAddressToTokenId' = [targetAddressToTokenId EXCEPT ![targetAddress] = tokenId]
    /\ targetAddressMinted' = [targetAddressMinted EXCEPT ![targetAddress] = TRUE]
    /\ tokenToTargetAddress' = [tokenToTargetAddress EXCEPT ![tokenId] = targetAddress]
    /\ events' = Append(events, AuraMinted(caller, targetAddress, tokenId, auraType))

\* line 61: _safeMint(msg.sender, tokenId): the token goes to the caller
\* mutant: the token goes to the target address
MintRecipient_Target(caller, targetAddress) == targetAddress

MintRecipient(caller, targetAddress) == caller

\* lines 60-61 up to the external call: the counter and ERC721._mint
MintAllocate(caller, tokenId) ==
    /\ nextTokenId' = AllocateId(nextTokenId)
    /\ owners' = [owners EXCEPT ![tokenId] = caller]

MintOp(caller, targetAddress, auraType) ==
    /\ CanCall(caller)
    /\ IF ~MintRequireUnminted(targetAddress) THEN Revert("DuplicateTarget")
       ELSE IF ~IsValidAura(auraType) THEN Revert("InvalidTier")
       ELSE
         \/ \* the recipient rejects (reverts or answers a wrong selector)
            /\ caller \in Contracts
            /\ Revert("ReceiverRejected")
         \/ LET tokenId == nextTokenId IN
            /\ nextTokenId < MaxTokens
            /\ Len(events) + Len(stack) < MaxEvents
            /\ MintAllocate(MintRecipient(caller, targetAddress), tokenId)
            /\ setLabel' = [setLabel EXCEPT ![tokenId] = auraType]
            /\ UNCHANGED <<baseImageURI, operatorApprovals, contractOwner>>
            /\ IF caller \in Contracts
               THEN \* _safeMint calls the recipient; the stores wait
                    /\ Len(stack) < MaxDepth
                    /\ stack' = Append(stack,
                          [caller |-> caller, targetAddress |-> targetAddress,
                           auraType |-> auraType, tokenId |-> tokenId])
                    /\ outcome' = "callback"
                    /\ UNCHANGED <<tokenAuras, targetAddressToTokenId,
                                   targetAddressMinted, tokenToTargetAddress, events>>
               ELSE /\ MintStores(caller, targetAddress, auraType, tokenId)
                    /\ outcome' = "ok"
                    /\ UNCHANGED stack

Mint(caller, targetAddress, auraType) ==
    /\ MintOp(caller, targetAddress, auraType)
    /\ UNCHANGED offchain

Top == stack[Len(stack)]

\* the recipient accepted: mint resumes after _safeMint
MintReturn ==
    /\ ~Quiescent
    /\ MintStores(Top.caller, Top.targetAddress, Top.auraType, Top.tokenId)
    /\ stack' = SubSeq(stack, 1, Len(stack) - 1)
    /\ outcome' = "ok"
    /\ UNCHANGED <<nextTokenId, baseImageURI, owners, operatorApprovals,
                   contractOwner, setLabel, offchain>>

\* ----------------------------------------------------------- updateAura
\* ERC721._isAuthorized: the owner or an operator the owner approved
IsAuthorized(owner, spender) ==
    owner = spender \/ spender \in operatorApprovals[owner]

\* ownerOf(tokenId) == msg.sender; ownerOf reverts for a token without owner
\* mutant: the ERC-721 transfer authorization is used instead of ownership
UpdateAuraAuthorized_Operator(caller, tokenId) ==
    IsAuthorized(owners[tokenId], caller)

UpdateAuraAuthorized(caller, tokenId) == owners[tokenId] = caller

UpdateAura(caller, tokenId, newAura) ==
    /\ CanCall(caller)
    /\ UNCHANGED offchain
    /\ IF owners[tokenId] = ZERO THEN Revert("NoSuchToken")
       ELSE IF ~UpdateAuraAuthorized(caller, tokenId) THEN Revert("NotOwner")
       ELSE IF ~IsValidAura(newAura) THEN Revert("InvalidTier")
       ELSE LET oldAura == tokenAuras[tokenId] IN
            /\ Len(events) + Len(stack) < MaxEvents
            /\ tokenAuras' = [tokenAuras EXCEPT ![tokenId] = newAura]
            /\ events' = Append(events, AuraUpdated(tokenId, oldAura, newAura))
            /\ setLabel' = [setLabel EXCEPT ![tokenId] = newAura]
            /\ outcome' = "ok"
            /\ UNCHANGED <<nextTokenId, targetAddressToTokenId, targetAddressMinted,
                           tokenToTargetAddress, baseImageURI, owners,
                           operatorApprovals, contractOwner, stack>>

\* ------------------------------------------------- inherited from ERC721
SetApprovalForAll(caller, operator, approved) ==
    /\ CanCall(caller)
    /\ UNCHANGED offchain
    /\ IF operator = ZERO THEN Revert("reverted")
       ELSE /\ operatorApprovals' =
                 [operatorApprovals EXCEPT ![caller] =
                     IF approved THEN @ \cup {operator} ELSE @ \ {operator}]
            /\ outcome' = "ok"
            /\ UNCHANGED <<nextTokenId, targetAddressToTokenId, targetAddressMinted,
                           tokenToTargetAddress, tokenAuras, baseImageURI, owners,
                           contractOwner, events, setLabel, stack>>

TransferFrom(caller, from, to, tokenId) ==
    /\ CanCall(caller)
    /\ UNCHANGED offchain
    /\ IF to = ZERO THEN Revert("reverted")
       ELSE IF owners[tokenId] = ZERO THEN Revert("reverted")
       ELSE IF ~IsAuthorized(owners[tokenId], caller) THEN Revert("reverted")
       ELSE IF owners[tokenId] # from THEN Revert("reverted")
       ELSE /\ owners' = [owners EXCEPT ![tokenId] = to]
            /\ outcome' = "ok"
            /\ UNCHANGED <<nextTokenId, targetAddressToTokenId, targetAddressMinted,
                           tokenToTargetAddress, tokenAuras, baseImageURI,
                           operatorApprovals, contractOwner, events, setLabel, stack>>

\* ------------------------------------------------------ setBaseImageURI
\* Ownable.onlyOwner
\* mutant: the modifier is missing
OnlyOwner_Anyone(caller) == TRUE

OnlyOwner(caller) == caller = contractOwner

SetBaseImageURI(caller, newBaseURI) ==
    /\ CanCall(caller)
    /\ UNCHANGED offchain
    /\ IF ~OnlyOwner(caller) THEN Revert("NotAdmin")
       ELSE /\ baseImageURI' = newBaseURI
            /\ outcome' = "ok"
            /\ UNCHANGED <<nextTokenId, targetAddressToTokenId, targetAddressMinted,
                           tokenToTargetAddress, tokenAuras, owners, operatorApprovals,
                           contractOwner, events, setLabel, stack>>

\* ------------------------------------------------ inherited from Ownable
TransferOwnership(caller, newOwner) ==
    /\ CanCall(caller)
    /\ UNCHANGED offchain
    /\ IF ~OnlyOwner(caller) THEN Revert("NotAdmin")
       ELSE IF newOwner = ZERO THEN Revert("reverted")
       ELSE /\ contractOwner' = newOwner
            /\ outcome' = "ok"
            /\ UNCHANGED <<nextTokenId, targetAddressToTokenId, targetAddressMinted,
                           tokenToTargetAddress, tokenAuras, baseImageURI, owners,
                           operatorApprovals, events, setLabel, stack>>

\* ---------------------------------------------------------- read surface
hasMinted(targetAddress) == targetAddressMinted[targetAddress]

\* mutant: a zero token ID is taken for "no token"
getTokenByTargetAddressOK_NonZeroId(targetAddress) ==
    targetAddressToTokenId[targetAddress] # 0

getTokenByTargetAddressOK(targetAddress) == targetAddressMinted[targetAddress]
getTokenByTargetAddress(targetAddress) == targetAddressToTokenId[targetAddress]

getTargetAddressOK(tokenId) == tokenId < nextTokenId
getTargetAddress(tokenId) == tokenToTargetAddress[tokenId]

getAuraOK(tokenId) == tokenId < nextTokenId
getAura(tokenId) == tokenAuras[tokenId]

\* --------------------------------------------------------------- tokenURI
GetAuraName(aura) ==
    IF aura = FIRE_WHALE THEN "Fire Whale"
    ELSE IF aura = WAVE_RIDER THEN "Wave Rider"
    ELSE IF aura = TIDE_WATCHER THEN "Tide Watcher"
    ELSE IF aura = ROCK_HOLDER THEN "Rock Holder"
    ELSE "Unknown"

GetAuraDescription(aura) ==
    IF aura = FIRE_WHALE THEN "DeFi Power User - 500+ transactions on Base"
    ELSE IF aura = WAVE_RIDER THEN "Active Explorer - 100-499 transactions on Base"
    ELSE IF aura = TIDE_WATCHER THEN "Getting Started - 10-99 transactions on Base"
    ELSE IF aura = ROCK_HOLDER THEN "Diamond Hands HODLer - 1-9 transactions on Base"
    ELSE "Base Aura NFT"

GetAuraTier(aura) ==
    IF aura = FIRE_WHALE THEN "Legendary"
    ELSE IF aura = WAVE_RIDER THEN "Rare"
    ELSE IF aura = TIDE_WATCHER THEN "Uncommon"
    ELSE IF aura = ROCK_HOLDER THEN "Common"
    ELSE "Unknown"

\* uint160(address): the numeric value of the modelled addresses
Uint160(a) ==
    IF a = "e1" THEN 1
    ELSE IF a = "k1" THEN 43981
    ELSE 0

HEX_DIGITS == <<"0", "1", "2", "3", "4", "5", "6", "7",
                "8", "9", "a", "b", "c", "d", "e", "f">>

\* the buffer loop of Strings.toHexString: one digit per nibble, lowest last
RECURSIVE HexBuffer(_, _)
HexBuffer(localValue, nibbles) ==
    IF nibbles = 0 THEN ""
    ELSE HexBuffer(localValue \div 16, nibbles - 1)
            \o HEX_DIGITS[(localValue % 16) + 1]

\* mutant: leading zeros are not written
RECURSIVE toHexString_Unpadded(_, _)
toHexString_Unpadded(value, length) ==
    IF value < 16 THEN "0x" \o HEX_DIGITS[value + 1]
    ELSE toHexString_Unpadded(value \div 16, length) \o HEX_DIGITS[(value % 16) + 1]

toHexString(value, length) == "0x" \o HexBuffer(value, 2 * length)

\* mutant: rendering requires a valid stored label
tokenURIOK_ValidOnly(tokenId) ==
    tokenId < nextTokenId /\ IsValidAura(tokenAuras[tokenId])

tokenURIOK(tokenId) == tokenId < nextTokenId

\* the JSON document of lines 128-150, field by field
tokenURI(tokenId) ==
    LET auraType        == tokenAuras[tokenId]
        auraName        == GetAuraName(auraType)
        auraDescription == GetAuraDescription(auraType)
        imageUrl        == baseImageURI \o auraType \o ".png"
        targetAddr      == tokenToTargetAddress[tokenId]
    IN  [name        |-> "Base Aura #" \o ToString(tokenId) \o " - " \o auraName,
         description |-> auraDescription,
         image       |-> imageUrl,
         attributes  |->
            <<[trait_type |-> "Aura Type", value |-> auraName],
              [trait_type |-> "Tier", value |-> GetAuraTier(auraType)],
              [trait_type |-> "Target Address",
               value |-> toHexString(Uint160(targetAddr), 20)]>>]

\* ------------------------------------------------------ calls of the views
View(ok, err) ==
    /\ outcome' = IF ok THEN "ok" ELSE err
    /\ UNCHANGED <<storage, stack, offchain>>

\* no require: the flag is returned in every state
HasMinted(targetAddress) == View(TRUE, "ok")

GetTokenByTargetAddress(targetAddress) ==
    View(getTokenByTargetAddressOK(targetAddress), "NotMinted")

GetTargetAddress(tokenId) == View(getTargetAddressOK(tokenId), "NoSuchToken")

GetAura(tokenId) == View(getAuraOK(tokenId), "NoSuchToken")

TokenURI(tokenId) == View(tokenURIOK(tokenId), "NoSuchToken")

Next ==
    \/ \E c \in Addresses, x \in Targets, a \in AuraInputs : Mint(c, x, a)
    \/ MintReturn
    \/ \E c \in Addresses, t \in TokenIds, a \in AuraInputs : UpdateAura(c, t, a)
    \/ \E c \in Contracts, op \in Operators \cup {ZERO}, b \in BOOLEAN :
            SetApprovalForAll(c, op, b)
    \/ \E c \in Addresses, f \in Addresses, to \in Addresses, t \in TokenIds :
            TransferFrom(c, f, to, t)
    \/ \E c \in Addresses, u \in URIs : SetBaseImageURI(c, u)
    \/ \E c \in Addresses, n \in AllAddr : TransferOwnership(c, n)
    \/ \E x \in AllAddr : HasMinted(x)
    \/ \E x \in AllAddr : GetTokenByTargetAddress(x)
    \/ \E t \in TokenIds : GetTargetAddress(t)
    \/ \E t \in TokenIds : GetAura(t)
    \/ \E t \in TokenIds : TokenURI(t)

Spec == Init /\ [][Next]_vars

\* =====================================================================
\* Concurrent mints of one target: the calls in `race` are serialized in
\* any order; a recipient callback may call back into the registry.
\* =====================================================================
RaceCalls ==
    {[caller |-> c, auraType |-> a] : c \in Addresses, a \in {FIRE_WHALE, ROCK_HOLDER}}

InitRace ==
    /\ InitStorage
    /\ InitClient
    /\ classified = null
    /\ InitIdle
    /\ race \in {r \in SUBSET RaceCalls :
                    /\ Cardinality(r) >= 2
                    /\ \A p, q \in r : p.caller = q.caller => p = q}

RaceMint(caller, auraType) ==
    /\ Quiescent
    /\ [caller |-> caller, auraType |-> auraType] \in race
    /\ MintOp(caller, RaceTarget, auraType)
    /\ race' = race \ {[caller |-> caller, auraType |-> auraType]}
    /\ UNCHANGED client

NestedMint(caller, targetAddress, auraType) ==
    /\ ~Quiescent
    /\ Mint(caller, targetAddress, auraType)

NestedUpdateAura(caller, tokenId, newAura) ==
    /\ ~Quiescent
    /\ UpdateAura(caller, tokenId, newAura)

NextRace ==
    \/ \E c \in Addresses, a \in AuraInputs : RaceMint(c, a)
    \/ \E c \in Contracts, x \in Targets, a \in AuraInputs : NestedMint(c, x, a)
    \/ \E c \in Contracts, t \in TokenIds, a \in AuraInputs : NestedUpdateAura(c, t, a)
    \/ MintReturn

SpecRace == InitRace /\ [][NextRace]_vars

RaceDone == race = {} /\ Quiescent

\* =====================================================================
\* The web client (App.jsx) in front of the registry.  The connected
\* wallet is an externally owned account; its signed transactions wait in
\* `mempool` until the registry executes them.
\* =====================================================================
Wallet     == "e1"
TextInputs == {"", "0xZZ"} \cup Targets
TxCounts   == {0, 9, 500}

\* /^0x[a-fA-F0-9]{40}$/: of the texts explored, the addresses match
IsAddressText(text) == text \in Targets

AURA_CONFIG ==
    [fire  |-> [name |-> "Fire Whale", tagline |-> "DeFi Power User",
                minTx |-> 500, tier |-> 4],
     water |-> [name |-> "Wave Rider", tagline |-> "Active Explorer",
                minTx |-> 100, tier |-> 3],
     tide  |-> [name |-> "Tide Watcher", tagline |-> "Getting Started",
                minTx |-> 10, tier |-> 2],
     rock  |-> [name |-> "Rock Holder", tagline |-> "Diamond Hands HODLer",
                minTx |-> 1, tier |-> 1]]

\* mutant: the top threshold is exclusive
getAuraType_Exclusive(txCount) ==
    IF txCount > 500 THEN "fire"
    ELSE IF txCount >= 100 THEN "water"
    ELSE IF txCount >= 10 THEN "tide"
    ELSE IF txCount >= 1 THEN "rock"
    ELSE NoAura

getAuraType(txCount) ==
    IF txCount >= 500 THEN "fire"
    ELSE IF txCount >= 100 THEN "water"
    ELSE IF txCount >= 10 THEN "tide"
    ELSE IF txCount >= 1 THEN "rock"
    ELSE NoAura

\* what fetchTxCount can resolve to: the count the oracle reports, or 0 on
\* every failure path
fetchTxCount(addr) == TxCounts

\* the lookup is not implemented: null for every address
checkExistingNft(addr) == null

ClientKeeps(unchangedVars) ==
    /\ UNCHANGED <<storage, stack, outcome, race, classified, upgrade, fetch, api>>
    /\ UNCHANGED unchangedVars

Connect ==
    /\ ~isConnected
    /\ isConnected' = TRUE
    /\ ClientKeeps(<<app, scan, mintTx, mempool, lastScan>>)

Disconnect ==
    /\ isConnected
    /\ isConnected' = FALSE
    /\ ClientKeeps(<<app, scan, mintTx, mempool, lastScan>>)

\* the effect that fills the empty input with the connected address
AutoFill ==
    /\ isConnected
    /\ app.targetAddress = ""
    /\ app' = [app EXCEPT !.targetAddress = Wallet]
    /\ ClientKeeps(<<isConnected, scan, mintTx, mempool, lastScan>>)

\* onChange of the input, rendered while connected
SetTargetAddress(text) ==
    /\ isConnected
    /\ app' = [app EXCEPT !.targetAddress = text]
    /\ ClientKeeps(<<isConnected, scan, mintTx, mempool, lastScan>>)

\* the scan button (rendered while connected, disabled while loading): the
\* handler up to its first await
HandleScan ==
    /\ isConnected
    /\ ~app.isLoading
    /\ IF app.targetAddress = ""
       THEN /\ app' = [app EXCEPT !.error = "Please enter a Base address"]
            /\ UNCHANGED <<scan, mintTx, lastScan>>
       ELSE IF ~IsAddressText(app.targetAddress)
       THEN /\ app' = [app EXCEPT !.error = "Invalid Ethereum address format"]
            /\ UNCHANGED <<scan, mintTx, lastScan>>
       ELSE /\ app' = [app EXCEPT !.isLoading = TRUE, !.error = "",
                                  !.scanResult = null, !.existingNft = null]
            /\ mintTx' = IdleWrite
            /\ scan' = [address |-> app.targetAddress]
            /\ lastScan' = [address |-> app.targetAddress, auraType |-> "pending"]
    /\ ClientKeeps(<<isConnected, mempool>>)

\* handleScan after fetchTxCount resolved with txCount
ScanResolve(txCount) ==
    /\ scan # null
    /\ txCount \in fetchTxCount(scan.address)
    /\ LET auraType == getAuraType(txCount) IN
       /\ IF auraType = NoAura
          THEN app' = [app EXCEPT
                         !.error = "No transactions found for this address on Base Sepolia",
                         !.isLoading = FALSE]
          ELSE app' = [app EXCEPT
                         !.existingNft = checkExistingNft(scan.address),
                         !.scanResult =
                             [address  |-> scan.address,
                              txCount  |-> txCount,
                              auraType |-> auraType,
                              auraName |-> AURA_CONFIG[auraType].name,
                              tagline  |-> AURA_CONFIG[auraType].tagline,
                              tier     |-> AURA_CONFIG[auraType].tier],
                         !.isLoading = FALSE]
       /\ lastScan' = [address |-> scan.address, auraType |-> auraType]
    /\ scan' = null
    /\ ClientKeeps(<<isConnected, mintTx, mempool>>)

\* mutant: an equal tier counts as an upgrade
CanUpgrade_OrEqual(existingNft, scanResult) ==
    /\ existingNft # null
    /\ scanResult # null
    /\ scanResult.auraType \in DOMAIN AURA_CONFIG
    /\ existingNft.currentAura \in DOMAIN AURA_CONFIG
    /\ AURA_CONFIG[scanResult.auraType].tier
          >= AURA_CONFIG[existingNft.currentAura].tier

\* AURA_CONFIG[...]?.tier is undefined for a label that is no key, and a
\* comparison with undefined is false
CanUpgrade(existingNft, scanResult) ==
    /\ existingNft # null
    /\ scanResult # null
    /\ scanResult.auraType \in DOMAIN AURA_CONFIG
    /\ existingNft.currentAura \in DOMAIN AURA_CONFIG
    /\ AURA_CONFIG[scanResult.auraType].tier
          > AURA_CONFIG[existingNft.currentAura].tier

canUpgrade == CanUpgrade(app.existingNft, app.scanResult)

\* the upgrade button is rendered
UpgradeRendered(existingNft, scanResult) ==
    /\ scanResult # null
    /\ existingNft # null
    /\ CanUpgrade(existingNft, scanResult)

\* the buttons of the result area
MintOffered    == app.scanResult # null /\ app.existingNft = null
UpgradeOffered == UpgradeRendered(app.existingNft, app.scanResult)

\* what handleUpgrade passes to writeUpdate; null when it returns early
handleUpgrade(scanResult, connected, existingNft) ==
    IF scanResult = null \/ ~connected \/ existingNft = null
    THEN null
    ELSE [functionName |-> "updateAura",
          args |-> <<existingNft.tokenId, scanResult.auraType>>]

\* mutant: the address is read from the input field
MintArgs_FromInput(result) == <<app.targetAddress, result.auraType>>

MintArgs(result) == <<result.address, result.auraType>>

\* the mint button (rendered when MintOffered, disabled while the hook is
\* pending)
HandleMint ==
    /\ MintOffered
    /\ mintTx.status # "pending"
    /\ IF app.scanResult = null \/ ~isConnected
       THEN UNCHANGED <<mintTx, mempool>>
       ELSE /\ mintTx' = [status |-> "pending", args |-> MintArgs(app.scanResult)]
            /\ mempool' = mempool \cup {MintArgs(app.scanResult)}
    /\ ClientKeeps(<<app, isConnected, scan, lastScan>>)

\* the registry executes a transaction the wallet signed
MintExecute(tx) ==
    /\ tx \in mempool
    /\ MintOp(Wallet, tx[1], tx[2])
    /\ mempool' = mempool \ {tx}
    /\ mintTx' = IF mintTx.status = "pending" /\ mintTx.args = tx
                 THEN [mintTx EXCEPT
                         !.status = IF outcome' = "ok" THEN "confirmed" ELSE "failed"]
                 ELSE mintTx
    /\ UNCHANGED <<race, app, isConnected, scan, lastScan, classified,
                   upgrade, fetch, api>>

NextClient ==
    \/ Connect
    \/ Disconnect
    \/ AutoFill
    \/ \E text \in TextInputs : SetTargetAddress(text)
    \/ HandleScan
    \/ \E txCount \in TxCounts : ScanResolve(txCount)
    \/ HandleMint
    \/ \E tx \in mempool : MintExecute(tx)

SpecClient == Init /\ [][NextClient]_vars

\* =====================================================================
\* The tier classifier applied to every transaction count up to a bound.
\* =====================================================================
MaxTxCount == 600

InitClassify ==
    /\ InitStorage
    /\ race = NoRace
    /\ InitClient
    /\ classified \in {[txCount |-> n, auraType |-> "unset"] : n \in 0 .. MaxTxCount}
    /\ InitIdle

Classify ==
    /\ classified.auraType = "unset"
    /\ classified' = [classified EXCEPT !.auraType = getAuraType(classified.txCount)]
    /\ UNCHANGED <<storage, stack, outcome, race, app, isConnected, scan,
                   mintTx, mempool, lastScan, upgrade, fetch, api>>

NextClassify == Classify

SpecClassify == InitClassify /\ [][NextClassify]_vars

\* =====================================================================
\* The upgrade decision of the client over every existing NFT and scan
\* result it is written for.  checkExistingNft never yields an existing
\* NFT, so under SpecClient existingNft stays null and the upgrade button
\* is never rendered; here the values are drawn from their types.
\* =====================================================================
Unset == [unset |-> TRUE]

ExistingNfts ==
    {null} \cup {[tokenId |-> t, currentAura |-> l] :
                    t \in 0 .. 1, l \in DOMAIN AURA_CONFIG \cup {""}}

ScanResults ==
    {null} \cup {[address |-> x, auraType |-> l] :
                    x \in Targets, l \in DOMAIN AURA_CONFIG}

InitUpgrade ==
    /\ InitStorage
    /\ race = NoRace
    /\ InitClient
    /\ classified = null
    /\ fetch = null
    /\ api = null
    /\ upgrade \in {[existingNft |-> e, scanResult |-> r, isConnected |-> b,
                     isUpdating |-> u, submitted |-> Unset] :
                       e \in ExistingNfts, r \in ScanResults,
                       b \in BOOLEAN, u \in BOOLEAN}

\* the upgrade button, where it is rendered and enabled, is clicked
ClickUpgrade ==
    /\ upgrade.submitted = Unset
    /\ upgrade' =
          [upgrade EXCEPT !.submitted =
              IF UpgradeRendered(upgrade.existingNft, upgrade.scanResult)
                    /\ ~upgrade.isUpdating
              THEN handleUpgrade(upgrade.scanResult, upgrade.isConnected,
                                 upgrade.existingNft)
              ELSE null]
    /\ UNCHANGED <<storage, stack, outcome, race, app, isConnected, scan,
                   mintTx, mempool, lastScan, classified, fetch, api>>

NextUpgrade == ClickUpgrade

SpecUpgrade == InitUpgrade /\ [][NextUpgrade]_vars

\* =====================================================================
\* HTTP answers and JavaScript values
\* (what fetch(), Response.json() and parseInt() hand to the code)
\* =====================================================================
\* JavaScript values read out of a JSON body
Undefined  == [type |-> "undefined"]
Str(chars) == [type |-> "string", chars |-> chars]
Num(n)     == [type |-> "number", value |-> n]
Arr(n)     == [type |-> "array", length |-> n]

\* bodies: Response.json() rejects, or resolves to null or to an object
Unparsable == [json |-> "unparsable"]
JsonNull   == [json |-> "null"]

\* an answer to fetch(): the promise rejects, or resolves to a Response
Throws          == [throws |-> TRUE]
Response(ok, b) == [throws |-> FALSE, ok |-> ok, body |-> b]

\* reading a property of the parsed body throws for null only
ReadThrows(ans) ==
    ans.throws \/ ans.body = Unparsable \/ ans.body = JsonNull

\* texts the explorer puts in "result": hex quantities and error messages
ResultTexts ==
    { <<"0", "x", "0">>,
      <<"0", "x", "9">>,
      <<"0", "x", "1", "f", "4">>,
      <<"0", "x">>,
      <<"M", "a", "x", " ", "r", "a", "t", "e">>,
      <<"E", "r", "r", "o", "r", "!">> }

\* String(value), as parseInt applies it to its first argument
RECURSIVE DecimalChars(_)
DecimalChars(n) ==
    IF n < 10 THEN <<HEX_DIGITS[n + 1]>>
    ELSE DecimalChars(n \div 10) \o <<HEX_DIGITS[(n % 10) + 1]>>

ToChars(v) ==
    CASE v.type = "undefined" ->
            <<"u", "n", "d", "e", "f", "i", "n", "e", "d">>
      [] v.type = "string" -> v.chars
      [] v.type = "number" -> DecimalChars(v.value)
      [] v.type = "array"  ->
            IF v.length = 0 THEN <<>> ELSE <<"[", "o", "b", "j", "e", "c", "t">>

HexValues ==
    [c \in {"0", "1", "2", "3", "4", "5", "6", "7", "8", "9",
            "a", "b", "c", "d", "e", "f", "A", "B", "C", "D", "E", "F"} |->
        CASE c = "0" -> 0 [] c = "1" -> 1 [] c = "2" -> 2 [] c = "3" -> 3
          [] c = "4" -> 4 [] c = "5" -> 5 [] c = "6" -> 6 [] c = "7" -> 7
          [] c = "8" -> 8 [] c = "9" -> 9
          [] c \in {"a", "A"} -> 10 [] c \in {"b", "B"} -> 11
          [] c \in {"c", "C"} -> 12 [] c \in {"d", "D"} -> 13
          [] c \in {"e", "E"} -> 14 [] c \in {"f", "F"} -> 15]

RECURSIVE StripLeft(_)
StripLeft(s) ==
    IF s # <<>> /\ Head(s) = " " THEN StripLeft(Tail(s)) ELSE s

\* number of leading characters of s that are digits of the radix
RECURSIVE DigitPrefix(_, _)
DigitPrefix(s, radix) ==
    IF s # <<>> /\ Head(s) \in DOMAIN HexValues /\ HexValues[Head(s)] < radix
    THEN 1 + DigitPrefix(Tail(s), radix)
    ELSE 0

RECURSIVE DigitsValue(_, _, _)
DigitsValue(s, n, radix) ==
    IF n = 0 THEN 0
    ELSE DigitsValue(s, n - 1, radix) * radix + HexValues[s[n]]

NaN == [nan |-> TRUE]

\* parseInt(text, 16): leading white space, a sign and 0x/0X are skipped,
\* the longest prefix of hexadecimal digits is the value, none is NaN
ParseInt16(chars) ==
    LET t    == StripLeft(chars)
        sign == IF t # <<>> /\ Head(t) = "-" THEN -1 ELSE 1
        u    == IF t # <<>> /\ Head(t) \in {"+", "-"} THEN Tail(t) ELSE t
        v    == IF Len(u) >= 2 /\ u[1] = "0" /\ u[2] \in {"x", "X"}
                THEN SubSeq(u, 3, Len(u)) ELSE u
        n    == DigitPrefix(v, 16)
    IN  IF n = 0 THEN NaN
        ELSE [nan |-> FALSE, value |-> sign * DigitsValue(v, n, 16)]

\* parseInt(value, 16) || 0
ParseCount(v) ==
    LET p == ParseInt16(ToChars(v))
    IN  IF p.nan THEN 0 ELSE p.value

\* value || 0, for a value that is undefined or a number
OrZero(v) == IF v.type = "number" THEN v.value ELSE 0

\* status === '1'
StatusIsOne(body) == body.status = Str(<<"1">>)

\* =====================================================================
\* App.jsx: fetchTxCount, one step per awaited request
\* =====================================================================
\* bodies of /api/txcount: the handler's 200 body carries txCount, its 400
\* and 500 bodies carry only an error text
OracleBodies ==
    {Unparsable, JsonNull} \cup
    {[json |-> "object", txCount |-> v] :
        v \in {Undefined} \cup {Num(n) : n \in TxCounts}}

OracleAnswers ==
    {Throws} \cup {Response(ok, b) : ok \in BOOLEAN, b \in OracleBodies}

\* bodies of the explorer's txlist query
ListBodies ==
    {Unparsable, JsonNull} \cup
    {[json |-> "object", status |-> s, result |-> r] :
        s \in {Undefined, Str(<<"0">>), Str(<<"1">>)},
        r \in {Undefined, Str(<<"M", "a", "x", " ", "r", "a", "t", "e">>)}
                  \cup {Arr(n) : n \in 0 .. MaxListLen}}

ListAnswers ==
    {Throws} \cup {Response(ok, b) : ok \in BOOLEAN, b \in ListBodies}

\* bodies of the explorer's eth_getTransactionCount proxy query
NonceBodies ==
    {Unparsable, JsonNull} \cup
    {[json |-> "object", status |-> Undefined, result |-> r] :
        r \in {Undefined} \cup {Str(t) : t \in ResultTexts}}

NonceAnswers ==
    {Throws} \cup {Response(ok, b) : ok \in BOOLEAN, b \in NonceBodies}

Thrown     == [thrown |-> TRUE]
Returns(n) == [thrown |-> FALSE, value |-> n]

\* the try block without the test of response.ok
OracleReturn_IgnoresStatus(ans) ==
    IF ReadThrows(ans) THEN Thrown ELSE Returns(OrZero(ans.body.txCount))

\* the try block of fetchTxCount
OracleReturn(ans) ==
    IF ans.throws THEN Thrown
    ELSE IF ~ans.ok THEN Thrown
    ELSE IF ReadThrows(ans) THEN Thrown
    ELSE Returns(OrZero(ans.body.txCount))

\* the fallback up to its second request: TRUE when the count is asked for
FallbackAsksCount(ans) == ~ReadThrows(ans) /\ StatusIsOne(ans.body)

\* the fallback's return value once the count has been answered
FallbackCount(ans) ==
    IF ReadThrows(ans) THEN 0 ELSE ParseCount(ans.body.result)

FetchKeeps ==
    UNCHANGED <<storage, stack, outcome, race, app, isConnected, scan,
                mintTx, mempool, lastScan, classified, upgrade, api>>

\* fetchTxCount(addr) is called and its first request is sent
FetchTxCount(addr) ==
    /\ fetch = null
    /\ fetch' = [addr |-> addr, pc |-> "oracle",
                 requests |-> <<"/api/txcount">>, answers |-> <<>>,
                 result |-> Unset]
    /\ FetchKeeps

FetchDone(ans, n) ==
    [fetch EXCEPT !.pc = "done", !.answers = Append(@, ans), !.result = n]

FetchAsks(ans, pc, request) ==
    [fetch EXCEPT !.pc = pc, !.answers = Append(@, ans),
                  !.requests = Append(@, request)]

\* the request to /api/txcount is answered
FetchOracle(ans) ==
    /\ fetch # null
    /\ fetch.pc = "oracle"
    /\ fetch' = IF OracleReturn(ans) = Thrown
                THEN FetchAsks(ans, "txlist", "txlist")
                ELSE FetchDone(ans, OracleReturn(ans).value)
    /\ FetchKeeps

\* the fallback's txlist request is answered
FetchFallbackList(ans) ==
    /\ fetch # null
    /\ fetch.pc = "txlist"
    /\ fetch' = IF FallbackAsksCount(ans)
                THEN FetchAsks(ans, "count", "eth_getTransactionCount")
                ELSE FetchDone(ans, 0)
    /\ FetchKeeps

\* the fallback's eth_getTransactionCount request is answered
FetchFallbackCount(ans) ==
    /\ fetch # null
    /\ fetch.pc = "count"
    /\ fetch' = FetchDone(ans, FallbackCount(ans))
    /\ FetchKeeps

NextFetch ==
    \/ \E addr \in Targets : FetchTxCount(addr)
    \/ \E ans \in OracleAnswers : FetchOracle(ans)
    \/ \E ans \in ListAnswers : FetchFallbackList(ans)
    \/ \E ans \in NonceAnswers : FetchFallbackCount(ans)

SpecFetch == Init /\ [][NextFetch]_vars

\* =====================================================================
\* main.jsx: handler of /api/txcount, one step per awaited request
\* =====================================================================
\* /^0x[a-fA-F0-9]{40}$/.test(address)
AddressFormatOK(address) == address \in Targets

BadRequest(text) == [status |-> 400, error |-> text]

ServerError == [status |-> 500, error |-> "Failed to fetch transaction count"]

\* the validation with the format test left out
Validate_RequiredOnly(address) ==
    IF address = "" THEN BadRequest("Address is required") ELSE null

\* the two early returns: the response they send, or null to go on
Validate(address) ==
    IF address = "" THEN BadRequest("Address is required")
    ELSE IF ~AddressFormatOK(address)
         THEN BadRequest("Invalid address format")
         ELSE null

\* status === '1' && Array.isArray(result)
ListReported(body) == StatusIsOne(body) /\ body.result.type = "array"

\* totalTxCount, with the list preferred whatever its status
TotalTxCount_AnyStatus(nonceTxCount, body) ==
    IF body.result.type = "array" THEN body.result.length ELSE nonceTxCount

\* totalTxCount: the nonce, replaced by the length of the list
TotalTxCount(nonceTxCount, body) ==
    IF ListReported(body) THEN body.result.length ELSE nonceTxCount

\* internalTxCount: 0, replaced by the length of the list
InternalTxCount(body) ==
    IF ListReported(body) THEN body.result.length ELSE 0

\* the body of the 200 response
Counts(address, totalTxCount, internalTxCount, nonceTxCount) ==
    [status |-> 200,
     address |-> address,
     txCount |-> totalTxCount + internalTxCount,
     regularTxCount |-> totalTxCount,
     internalTxCount |-> internalTxCount,
     nonce |-> nonceTxCount]

HandlerKeeps ==
    UNCHANGED <<storage, stack, outcome, race, app, isConnected, scan,
                mintTx, mempool, lastScan, classified, upgrade, fetch>>

\* a request arrives: it is refused, or the nonce is asked for
Handler(address) ==
    /\ api = null
    /\ api' = [address |-> address,
               pc |-> IF Validate(address) = null THEN "nonce" ELSE "done",
               requests |-> IF Validate(address) = null
                            THEN <<"eth_getTransactionCount">> ELSE <<>>,
               answers |-> <<>>,
               nonceTxCount |-> Unset,
               totalTxCount |-> Unset,
               responses |-> IF Validate(address) = null
                             THEN <<>> ELSE <<Validate(address)>>]
    /\ HandlerKeeps

\* the catch block
HandlerFails(ans) ==
    [api EXCEPT !.pc = "done", !.answers = Append(@, ans),
                !.responses = Append(@, ServerError)]

\* the nonce query is answered
HandlerNonce(ans) ==
    /\ api # null
    /\ api.pc = "nonce"
    /\ api' = IF ReadThrows(ans) THEN HandlerFails(ans)
              ELSE [api EXCEPT !.pc = "txlist",
                               !.answers = Append(@, ans),
                               !.requests = Append(@, "txlist"),
                               !.nonceTxCount = ParseCount(ans.body.result)]
    /\ HandlerKeeps

\* the transaction list query is answered
HandlerTxList(ans) ==
    /\ api # null
    /\ api.pc = "txlist"
    /\ api' = IF ReadThrows(ans) THEN HandlerFails(ans)
              ELSE [api EXCEPT !.pc = "internal",
                               !.answers = Append(@, ans),
                               !.requests = Append(@, "txlistinternal"),
                               !.totalTxCount =
                                    TotalTxCount(api.nonceTxCount, ans.body)]
    /\ HandlerKeeps

\* the internal transaction list query is answered
HandlerInternal(ans) ==
    /\ api # null
    /\ api.pc = "internal"
    /\ api' = IF ReadThrows(ans) THEN HandlerFails(ans)
              ELSE [api EXCEPT !.pc = "done",
                               !.answers = Append(@, ans),
                               !.responses =
                                    Append(@, Counts(api.address,
                                                     api.totalTxCount,
                                                     InternalTxCount(ans.body),
                                                     api.nonceTxCount))]
    /\ HandlerKeeps

NextHandler ==
    \/ \E address \in TextInputs : Handler(address)
    \/ \E ans \in NonceAnswers : HandlerNonce(ans)
    \/ \E ans \in ListAnswers : HandlerTxList(ans)
    \/ \E ans \in ListAnswers : HandlerInternal(ans)

SpecHandler == Init /\ [][NextHandler]_vars

\* =====================================================================
\* Properties
\* =====================================================================
Existing == 0 .. (nextTokenId - 1)

TokensOf(targetAddress) ==
    {t \in Existing : tokenToTargetAddress[t] = targetAddress}

\* C1: between transactions, every target address is the target of at most
\* one token and target->token and token->target are mutual inverses:
\* getTokenByTargetAddress(getTargetAddress(t)) = t for every existing token
\* t, and getTargetAddress(getTokenByTargetAddress(X)) = X for every minted X.
C1_MutualInverse ==
    Quiescent =>
        /\ \A x \in AllAddr : Cardinality(TokensOf(x)) <= 1
        /\ \A t \in Existing :
              /\ getTokenByTargetAddressOK(getTargetAddress(t))
              /\ getTokenByTargetAddress(getTargetAddress(t)) = t
        /\ \A x \in AllAddr :
              hasMinted(x) => getTargetAddress(getTokenByTargetAddress(x)) = x

\* C2: mint is atomic: in no state in which another operation can run
\* (the recipient callback of a suspended mint included) does the token of
\* that mint exist (owner set, ID below the counter) while its tier label,
\* its target address, the target->token entry or the minted flag of the
\* target are not stored.
C2_MintAtomic ==
    \A i \in DOMAIN stack :
        LET f == stack[i] IN
        (owners[f.tokenId] # ZERO /\ f.tokenId < nextTokenId) =>
            /\ tokenAuras[f.tokenId] # ""
            /\ tokenToTargetAddress[f.tokenId] = f.targetAddress
            /\ targetAddressToTokenId[f.targetAddress] = f.tokenId
            /\ targetAddressMinted[f.targetAddress]

\* C3: a mint call naming a target that is already minted fails with
\* DuplicateTarget, whatever the caller and the label, and leaves the
\* counter, the owners, the four mappings, the image base and the event log
\* unchanged.
C3_DuplicateMintRejected ==
    [][\A c \in Addresses, x \in Targets, a \in AuraInputs :
          (targetAddressMinted[x] /\ Mint(c, x, a)) =>
              (outcome' = "DuplicateTarget" /\ UNCHANGED storage)]_vars

C3_Witness ==
    /\ outcome = "DuplicateTarget"
    /\ nextTokenId >= 1
    /\ \E x \in Targets : targetAddressMinted[x] /\ TokensOf(x) # {}

\* C4: once getTokenByTargetAddress(X) is callable it returns the same token
\* ID in every later state in which it is callable.
C4_LookupStable ==
    [][\A x \in AllAddr :
          (getTokenByTargetAddressOK(x) /\ getTokenByTargetAddressOK(x)') =>
              getTokenByTargetAddress(x)' = getTokenByTargetAddress(x)]_vars

\* C5: an updateAura call by an address that is not the token's current
\* owner (the target address, a former owner, an approved operator, the
\* administrator) or on a token ID without owner fails and leaves the tier
\* label and all other state unchanged.
C5_OnlyOwnerUpdates ==
    [][\A c \in Addresses, t \in TokenIds, a \in AuraInputs :
          (owners[t] # c /\ UpdateAura(c, t, a)) =>
              /\ outcome' \in {"NotOwner", "NoSuchToken"}
              /\ UNCHANGED storage]_vars

\* every token is owned by the contract account, which approved the
\* administrator as operator, and the administrator's updateAura was refused
C5_Witness ==
    /\ outcome = "NotOwner"
    /\ nextTokenId >= 1
    /\ \A t \in Existing : owners[t] = "k1"
    /\ contractOwner \in operatorApprovals["k1"]

\* C6: between transactions, getAura(t) is the label of the most recent
\* successful updateAura(t, ..), or the label of the creating mint if no
\* updateAura on t succeeded (updates during the mint's callback included).
C6_LabelIsLastSet ==
    Quiescent => \A t \in Existing : getAura(t) = setLabel[t]

\* C7: getTargetAddress(t) returns the same address in every state in which
\* the call succeeds, from the first state in which t exists onward.
C7_TargetImmutable ==
    [][\A t \in TokenIds :
          (getTargetAddressOK(t) /\ getTargetAddressOK(t)') =>
              getTargetAddress(t)' = getTargetAddress(t)]_vars

\* C8: in every reachable state, for every token ID for which getAura
\* succeeds, the stored label is one of the four valid labels and never the
\* empty string.
C8_LabelValid ==
    \A t \in TokenIds : getAuraOK(t) => IsValidAura(getAura(t))

\* C9: the token IDs that have an owner are exactly 0 .. counter-1; a mint
\* that gets past its checks creates the token whose ID is the counter value
\* before the call and increases the counter by exactly one; a failed mint
\* (duplicate target, invalid tier, rejecting recipient) leaves the counter
\* unchanged; no ID is reused or removed.
C9_Step ==
    /\ \/ nextTokenId' = nextTokenId
       \/ /\ nextTokenId' = nextTokenId + 1
          /\ owners[nextTokenId] = ZERO
          /\ owners'[nextTokenId] # ZERO
          /\ outcome' \in {"ok", "callback"}
    /\ outcome' \in {"DuplicateTarget", "InvalidTier", "ReceiverRejected"} =>
          nextTokenId' = nextTokenId
    /\ \A t \in TokenIds : owners[t] # ZERO => owners'[t] # ZERO
    /\ \A t \in TokenIds : (owners[t] = ZERO /\ owners'[t] # ZERO) => t = nextTokenId

C9_DenseIds ==
    /\ [](\A t \in TokenIds : owners[t] # ZERO <=> t < nextTokenId)
    /\ [][C9_Step]_vars

C9_Witness ==
    /\ nextTokenId = MaxTokens
    /\ Quiescent
    /\ \A t \in Existing : owners[t] # ZERO
    /\ outcome \in {"DuplicateTarget", "InvalidTier", "ReceiverRejected"}

\* C10: when the concurrently submitted mint calls naming one unminted
\* target have all been serialized, exactly one token has that target.
C10_OneTokenForTarget ==
    RaceDone => Cardinality(TokensOf(RaceTarget)) = 1
\* ---------------------------------------------------------------------
ValidLabels == {"fire", "water", "tide", "rock"}

LastEvent == events[Len(events)]

\* C11 (as claimed): for every caller, externally owned or contract, every
\* unminted target and every valid label, mint succeeds and the caller owns
\* the new token.
C11_AnyCallerSucceeds ==
    [][\A c \in Addresses, x \in Targets, a \in AuraInputs :
          (~hasMinted(x) /\ a \in ValidLabels /\ Mint(c, x, a)) =>
              /\ outcome' \in {"ok", "callback"}
              /\ owners'[nextTokenId] = c]_vars

\* C11 (amended): mint of an unminted target with a valid label succeeds
\* for every externally owned caller, whether or not the target is the
\* caller, and the caller, not the target, then owns the new token; for a
\* contract caller either the recipient rejects and nothing changes, or the
\* caller owns the new token when its acceptance callback starts.
C11_CallerBecomesOwner ==
    [][\A c \in Addresses, x \in Targets, a \in AuraInputs :
          (~hasMinted(x) /\ a \in ValidLabels /\ Mint(c, x, a)) =>
              IF c \in EOAs
              THEN /\ outcome' = "ok"
                   /\ nextTokenId' = nextTokenId + 1
                   /\ owners'[nextTokenId] = c
                   /\ tokenToTargetAddress'[nextTokenId] = x
              ELSE \/ outcome' = "ReceiverRejected" /\ UNCHANGED storage
                   \/ /\ outcome' = "callback"
                      /\ nextTokenId' = nextTokenId + 1
                      /\ owners'[nextTokenId] = c]_vars

\* an externally owned account has just minted for a target other than itself
C11_Witness ==
    /\ outcome = "ok"
    /\ events # <<>>
    /\ LastEvent.event = "AuraMinted"
    /\ LastEvent.minter \in EOAs
    /\ LastEvent.targetAddress # LastEvent.minter
    /\ owners[LastEvent.tokenId] = LastEvent.minter

\* C12: called by the current owner, updateAura succeeds for every valid
\* new label, whatever the current label (a lower-ranked or an equal label
\* included), and the stored label becomes the new label.
C12_AnyValidLabelReplaces ==
    [][\A c \in Addresses, t \in TokenIds, a \in AuraInputs :
          (owners[t] = c /\ a \in ValidLabels /\ UpdateAura(c, t, a)) =>
              /\ outcome' = "ok"
              /\ getAura(t)' = a
              /\ events' = Append(events, AuraUpdated(t, getAura(t), a))]_vars

\* the last call replaced "fire" by the lower-ranked "rock"
C12_Witness ==
    /\ outcome = "ok"
    /\ events # <<>>
    /\ LastEvent.event = "AuraUpdated"
    /\ LastEvent.oldAura = FIRE_WHALE
    /\ LastEvent.newAura = ROCK_HOLDER
    /\ getAura(LastEvent.tokenId) = ROCK_HOLDER

\* C13: setBaseImageURI by an address other than the current contract
\* owner fails and changes nothing; by the contract owner it stores the
\* given value, the empty string included, and changes nothing else.
C13_OnlyAdminSetsBase ==
    [][\A c \in Addresses, u \in URIs :
          SetBaseImageURI(c, u) =>
              IF c = contractOwner
              THEN /\ outcome' = "ok"
                   /\ baseImageURI' = u
                   /\ UNCHANGED <<nextTokenId, targetAddressToTokenId,
                                  targetAddressMinted, tokenToTargetAddress,
                                  tokenAuras, owners, operatorApprovals,
                                  contractOwner, events>>
              ELSE /\ outcome' = "NotAdmin"
                   /\ UNCHANGED storage]_vars

\* the deployer handed the contract over and a later call was refused,
\* while a token exists and the image base is the empty string
C13_Witness ==
    /\ outcome = "NotAdmin"
    /\ contractOwner # Deployer
    /\ nextTokenId >= 1
    /\ baseImageURI = ""
\* a successful mint has named the address: its AuraMinted event is in the log
NamedByMint(x) ==
    \E i \in DOMAIN events :
        events[i].event = "AuraMinted" /\ events[i].targetAddress = x

\* C14: no view changes state; hasMinted succeeds for every address in
\* every state; getTokenByTargetAddress(X) fails with NotMinted exactly when
\* no successful mint has named X; getTargetAddress(t), getAura(t) and
\* tokenURI(t) fail with NoSuchToken exactly when t is not below the counter.
C14_ViewsFailExactly ==
    [][/\ \A x \in AllAddr :
             HasMinted(x) => outcome' = "ok" /\ UNCHANGED storage
       /\ \A x \in AllAddr :
             GetTokenByTargetAddress(x) =>
                /\ UNCHANGED storage
                /\ outcome' = (IF NamedByMint(x) THEN "ok" ELSE "NotMinted")
       /\ \A t \in TokenIds :
             (GetTargetAddress(t) \/ GetAura(t) \/ TokenURI(t)) =>
                /\ UNCHANGED storage
                /\ outcome' = (IF t >= nextTokenId THEN "NoSuchToken" ELSE "ok")]_vars

\* a lookup by target has just failed although token 0 exists and names a
\* target
C14_Witness ==
    /\ outcome = "NotMinted"
    /\ nextTokenId >= 1
    /\ hasMinted(tokenToTargetAddress[0])

InvalidStored == {t \in Existing : tokenAuras[t] \notin ValidLabels}

AttributeOf(doc, trait) ==
    LET i == CHOOSE j \in DOMAIN doc.attributes :
                 doc.attributes[j].trait_type = trait
    IN  doc.attributes[i].value

RECURSIVE Replay(_, _, _, _)
Replay(log, i, t, label) ==
    IF i > Len(log) THEN label
    ELSE LET e == log[i] IN
         Replay(log, i + 1, t,
                IF e.tokenId # t THEN label
                ELSE IF e.event = "AuraMinted" THEN e.auraType
                ELSE e.newAura)

\* C16: a mint that completes appends exactly one AuraMinted(caller,
\* target, ID, label) with the ID assigned to it, a successful updateAura
\* appends exactly one AuraUpdated(ID, label before, label after), every
\* other call and every failed call appends nothing; in every state,
\* replaying the log in order gives the stored label of every token.
C16_LogStep ==
    /\ outcome' # "ok" => events' = events
    /\ events' # events =>
          LET e == events'[Len(events')] IN
          /\ events' = Append(events, e)
          /\ e.event = "AuraMinted" =>
                /\ \/ MintReturn /\ e.minter = Top.caller /\ e.tokenId = Top.tokenId
                   \/ /\ Mint(e.minter, e.targetAddress, e.auraType)
                      /\ e.tokenId = nextTokenId
                      /\ owners[e.tokenId] = ZERO
                /\ e.tokenId < nextTokenId'
                /\ owners'[e.tokenId] # ZERO
                /\ tokenAuras'[e.tokenId] = e.auraType
                /\ tokenToTargetAddress'[e.tokenId] = e.targetAddress
          /\ e.event = "AuraUpdated" =>
                /\ UpdateAura(owners[e.tokenId], e.tokenId, e.newAura)
                /\ e.oldAura = tokenAuras[e.tokenId]
                /\ e.newAura = tokenAuras'[e.tokenId]
    /\ (tokenAuras' # tokenAuras \/ Len(stack') < Len(stack)) =>
          Len(events') = Len(events) + 1
    /\ nextTokenId' # nextTokenId =>
          Len(events') + Len(stack') = Len(events) + Len(stack) + 1
    /\ \A t \in Existing, a \in ValidLabels :
          (outcome' = "ok" /\ tokenAuras[t] = a /\ UpdateAura(owners[t], t, a)) =>
              events' = Append(events, [event |-> "AuraUpdated", tokenId |-> t,
                                        oldAura |-> a, newAura |-> a])

C16_LogIsFaithful ==
    /\ [](\A t \in TokenIds : Replay(events, 1, t, "") = tokenAuras[t])
    /\ [][C16_LogStep]_vars

\* the log holds a mint followed by an update of the same token and a
\* failed call has just left it alone
C16_Witness ==
    /\ Len(events) = 2
    /\ events[1].event = "AuraMinted"
    /\ events[2].event = "AuraUpdated"
    /\ events[2].tokenId = events[1].tokenId
    /\ events[2].oldAura = events[1].auraType
    /\ events[2].newAura # events[2].oldAura
    /\ outcome \in {"DuplicateTarget", "NotOwner", "InvalidTier"}

ExpectedName == [fire |-> "Fire Whale", water |-> "Wave Rider",
                 tide |-> "Tide Watcher", rock |-> "Rock Holder"]

ExpectedRank == [fire |-> "Legendary", water |-> "Rare",
                 tide |-> "Uncommon", rock |-> "Common"]

ExpectedHex ==
    [a \in AllAddr |->
        IF a = "e1" THEN "0x0000000000000000000000000000000000000001"
        ELSE IF a = "k1" THEN "0x000000000000000000000000000000000000abcd"
        ELSE "0x0000000000000000000000000000000000000000"]

ExpectedImage(base, label) ==
    IF base = "https://x/"
    THEN (IF label = "fire" THEN "https://x/fire.png"
          ELSE IF label = "rock" THEN "https://x/rock.png"
          ELSE IF label = "water" THEN "https://x/water.png"
          ELSE IF label = "tide" THEN "https://x/tide.png"
          ELSE "https://x/.png")
    ELSE (IF label = "fire" THEN "fire.png"
          ELSE IF label = "rock" THEN "rock.png"
          ELSE IF label = "water" THEN "water.png"
          ELSE IF label = "tide" THEN "tide.png"
          ELSE ".png")

Renders(t, base, label, target) ==
    LET doc == tokenURI(t) IN
    /\ doc.image = ExpectedImage(base, label)
    /\ label \in ValidLabels =>
          /\ AttributeOf(doc, "Aura Type") = ExpectedName[label]
          /\ AttributeOf(doc, "Tier") = ExpectedRank[label]
    /\ AttributeOf(doc, "Target Address") = ExpectedHex[target]
    /\ Len(AttributeOf(doc, "Target Address")) = 42

\* C18: for every existing token the document of tokenURI has the image
\* base \o label \o ".png" for the current base and label, the name and
\* rank of the current label, and the target address as "0x" and 40
\* zero-padded hexadecimal digits; while a successful updateAura is the
\* last logged mutation, the document of its token is the one of the new
\* label of that update under the base set last.
C18_DocumentOfCurrentState ==
    /\ \A t \in Existing :
          Renders(t, baseImageURI, tokenAuras[t], tokenToTargetAddress[t])
    /\ \A l \in ValidLabels :
          /\ GetAuraName(l) = ExpectedName[l]
          /\ GetAuraTier(l) = ExpectedRank[l]
    /\ (events # <<>> /\ LastEvent.event = "AuraUpdated") =>
          Renders(LastEvent.tokenId, baseImageURI, LastEvent.newAura,
                  tokenToTargetAddress[LastEvent.tokenId])

\* a token of target k1 was relabelled to rock while the base is ""
C18_Witness ==
    /\ baseImageURI = ""
    /\ \E t \in Existing :
          /\ tokenToTargetAddress[t] = "k1"
          /\ tokenAuras[t] = ROCK_HOLDER
          /\ setLabel[t] = ROCK_HOLDER
          /\ tokenURI(t).image = "rock.png"
          /\ \E i \in DOMAIN events :
                events[i].event = "AuraUpdated" /\ events[i].tokenId = t
\* the rank of a classification: the tier number of AURA_CONFIG, 0 for none
RankOf(auraType) == IF auraType = NoAura THEN 0 ELSE AURA_CONFIG[auraType].tier

\* the README tier table
ReadmeTiers ==
    [fire  |-> [tier |-> "Fire Whale", transactions |-> "500+",
                description |-> "DeFi Power User"],
     water |-> [tier |-> "Wave Rider", transactions |-> "100-499",
                description |-> "Active Explorer"],
     tide  |-> [tier |-> "Tide Watcher", transactions |-> "10-99",
                description |-> "Getting Started"],
     rock  |-> [tier |-> "Rock Holder", transactions |-> "1-9",
                description |-> "Diamond Hands HODLer"]]

\* the range of counts the classifier gives a tier, written as the README
\* and the contract write it: from its own threshold up to one below the
\* threshold of the next tier
RangeText(auraType) ==
    LET above == {a \in ValidLabels : RankOf(a) = RankOf(auraType) + 1} IN
    IF above = {} THEN ToString(AURA_CONFIG[auraType].minTx) \o "+"
    ELSE ToString(AURA_CONFIG[auraType].minTx) \o "-"
            \o ToString(AURA_CONFIG[CHOOSE a \in above : TRUE].minTx - 1)

\* C17: the classifier gives every count exactly the tier of its range
\* (500 and more fire, 100..499 water, 10..99 tide, 1..9 rock, 0 none),
\* never ranks a smaller count above a larger one, and its ranges are the
\* ones of the README table and of the contract's tier descriptions.
C17_ClassifierRanges ==
    classified.auraType # "unset" =>
        LET n == classified.txCount
            r == classified.auraType
        IN  /\ r \in ValidLabels \cup {NoAura}
            /\ r = "fire"  <=> n >= 500
            /\ r = "water" <=> (100 <= n /\ n <= 499)
            /\ r = "tide"  <=> (10 <= n /\ n <= 99)
            /\ r = "rock"  <=> (1 <= n /\ n <= 9)
            /\ r = NoAura  <=> n = 0
            /\ \A m \in 0 .. n : RankOf(getAuraType(m)) <= RankOf(r)
            /\ r # NoAura =>
                  /\ RangeText(r) = ReadmeTiers[r].transactions
                  /\ AURA_CONFIG[r].name = ReadmeTiers[r].tier
                  /\ GetAuraName(r) = ReadmeTiers[r].tier
                  /\ GetAuraDescription(r) =
                        ReadmeTiers[r].description \o " - " \o RangeText(r)
                            \o " transactions on Base"

\* the count 500 has been classified as fire
C17_Witness ==
    /\ classified.txCount = 500
    /\ classified.auraType = "fire"

\* C19: a mint transaction is submitted only while the scan started last
\* has completed with a tier, and its arguments are the address and the
\* tier of that scan, whatever the input field holds.
C19_MintOnlyScanned ==
    [][(mintTx' # mintTx \/ mempool' # mempool) =>
          \/ HandleScan /\ mintTx' = IdleWrite /\ mempool' = mempool
          \/ \E tx \in mempool : MintExecute(tx)
          \/ /\ HandleMint
             /\ lastScan # null
             /\ lastScan.auraType \in ValidLabels
             /\ mintTx' = [status |-> "pending",
                           args |-> <<lastScan.address, lastScan.auraType>>]
             /\ mempool' = mempool \cup {<<lastScan.address, lastScan.auraType>>}
             /\ scan = null]_vars

\* a mint for the scanned address k1 waits in the wallet's hook after the
\* input field was changed to another address
C19_Witness ==
    /\ mintTx.status = "pending"
    /\ mintTx.args[1] = "k1"
    /\ app.scanResult # null
    /\ app.scanResult.address = "k1"
    /\ app.targetAddress = "e1"
    /\ mintTx.args \in mempool

\* C20: when a scan completes for a target that has a token, the client
\* records that token (ID and current tier) as the existing NFT and does
\* not offer mint; it offers mint only when the target has no token.
C20_ExistingTokenDetected ==
    [][\A txCount \in TxCounts :
          (ScanResolve(txCount) /\ app'.scanResult # null) =>
              IF hasMinted(scan.address)
              THEN /\ app'.existingNft # null
                   /\ app'.existingNft =
                         [tokenId |-> getTokenByTargetAddress(scan.address),
                          currentAura |-> getAura(getTokenByTargetAddress(scan.address))]
                   /\ ~MintOffered'
              ELSE /\ app'.existingNft = null
                   /\ MintOffered']_vars
\* the owner, target address and label of token u are left as they were
TokenKept(u) ==
    /\ owners'[u] = owners[u]
    /\ tokenToTargetAddress'[u] = tokenToTargetAddress[u]
    /\ tokenAuras'[u] = tokenAuras[u]

\* C25: a successful updateAura(t, label) changes the label of t and
\* appends one event, and leaves the counter, the owners, both mappings,
\* the minted flags, the labels of the other tokens and the image base
\* unchanged; a successful mint (the part before the recipient callback
\* and the part after it alike) leaves the owner, target address and label
\* of every other existing token and the minted flag of every other target
\* unchanged.
C25_Frame ==
    [][/\ \A c \in Addresses, t \in TokenIds, a \in AuraInputs :
             (outcome' = "ok" /\ events' # events /\ UpdateAura(c, t, a)) =>
                 /\ \A u \in TokenIds \ {t} : tokenAuras'[u] = tokenAuras[u]
                 /\ Len(events') = Len(events) + 1
                 /\ SubSeq(events', 1, Len(events)) = events
                 /\ UNCHANGED <<nextTokenId, owners, targetAddressToTokenId,
                                tokenToTargetAddress, targetAddressMinted,
                                baseImageURI, operatorApprovals, contractOwner>>
       /\ \A c \in Addresses, x \in Targets, a \in AuraInputs :
             (nextTokenId' # nextTokenId /\ Mint(c, x, a)) =>
                 /\ \A u \in Existing : TokenKept(u)
                 /\ \A y \in AllAddr \ {x} :
                       targetAddressMinted'[y] = targetAddressMinted[y]
                 /\ UNCHANGED baseImageURI
       /\ MintReturn =>
             /\ \A u \in Existing \ {Top.tokenId} : TokenKept(u)
             /\ owners' = owners
             /\ \A y \in AllAddr \ {Top.targetAddress} :
                   targetAddressMinted'[y] = targetAddressMinted[y]
             /\ UNCHANGED <<nextTokenId, baseImageURI>>]_vars

\* the second token has just been minted with another label than the first,
\* and the first token still has the label, target and owner of its mint
C25_Witness ==
    /\ outcome = "ok"
    /\ Len(events) = 2
    /\ events[1].event = "AuraMinted"
    /\ events[2].event = "AuraMinted"
    /\ events[2].tokenId # events[1].tokenId
    /\ events[2].auraType # events[1].auraType
    /\ tokenAuras[events[1].tokenId] = events[1].auraType
    /\ tokenToTargetAddress[events[1].tokenId] = events[1].targetAddress
    /\ owners[events[1].tokenId] = events[1].minter
\* the ranks as the claim states them
ClaimedRank == [rock |-> 1, tide |-> 2, water |-> 3, fire |-> 4]

\* C21: an update is submitted only for an existing NFT whose current tier
\* the scanned tier strictly outranks (rock 1 < tide 2 < water 3 < fire 4),
\* with the token ID of that NFT and the scanned tier as arguments; for an
\* equal or lower scanned tier nothing is submitted.
C21_UpgradeOnlyOutranking ==
    upgrade.submitted # Unset =>
        LET e == upgrade.existingNft
            r == upgrade.scanResult
        IN  /\ upgrade.submitted # null =>
                  /\ e # null /\ r # null
                  /\ e.currentAura \in ValidLabels
                  /\ ClaimedRank[r.auraType] > ClaimedRank[e.currentAura]
                  /\ upgrade.submitted =
                        [functionName |-> "updateAura",
                         args |-> <<e.tokenId, r.auraType>>]
            /\ (/\ e # null /\ r # null
                /\ e.currentAura \in ValidLabels
                /\ ClaimedRank[r.auraType] <= ClaimedRank[e.currentAura]) =>
                  upgrade.submitted = null

\* an update of token 1 from rock to fire has been submitted
C21_Witness ==
    /\ upgrade.submitted # Unset
    /\ upgrade.submitted # null
    /\ upgrade.existingNft.currentAura = "rock"
    /\ upgrade.submitted.args = <<1, "fire">>

\* ---------------------------------------------------------------------
\* the request to /api/txcount threw or came back with a non-OK status
OracleFailed(f) ==
    Len(f.answers) >= 1 /\ (f.answers[1].throws \/ ~f.answers[1].ok)

\* the hex quantities among the explorer's result texts, with their values
HexQuantities ==
    { <<Str(<<"0", "x", "0">>), 0>>,
      <<Str(<<"0", "x", "9">>), 9>>,
      <<Str(<<"0", "x", "1", "f", "4">>), 500>> }

\* the direct explorer query failed or reported no transactions: the list
\* query threw, had no readable body or did not report status '1', or the
\* count query threw, had no readable body, carried no hex quantity or
\* carried the quantity zero
SecondaryFailedOrEmpty(f) ==
    /\ Len(f.answers) >= 2
    /\ \/ ReadThrows(f.answers[2])
       \/ f.answers[2].body.status # Str(<<"1">>)
       \/ /\ Len(f.answers) = 3
          /\ \/ ReadThrows(f.answers[3])
             \/ \A q \in HexQuantities : f.answers[3].body.result # q[1]
             \/ f.answers[3].body.result = Str(<<"0", "x", "0">>)

\* C22: fetchTxCount tolerates the activity oracle being unavailable:
\* whenever the request to /api/txcount throws or returns a non-OK status,
\* the txlist query of the explorer is sent before any count is concluded;
\* the call never ends in an exception, it always resolves to a
\* non-negative integer, and after an oracle failure it resolves to 0 only
\* if the explorer query failed as well or reported no transactions (and
\* to the explorer's quantity when that query delivered one).
C22_FallbackBeforeZero ==
    fetch # null =>
        /\ fetch.pc \in {"oracle", "txlist", "count", "done"}
        /\ fetch.pc = "done" => fetch.result \in Nat
        /\ OracleFailed(fetch) =>
              /\ Len(fetch.requests) >= 2
              /\ fetch.requests[1] = "/api/txcount"
              /\ fetch.requests[2] = "txlist"
              /\ fetch.pc = "done" => Len(fetch.answers) >= 2
        /\ (fetch.pc = "done" /\ OracleFailed(fetch)) =>
              /\ fetch.result = 0 => SecondaryFailedOrEmpty(fetch)
              /\ \A q \in HexQuantities :
                    (/\ Len(fetch.answers) = 3
                     /\ ~ReadThrows(fetch.answers[3])
                     /\ fetch.answers[3].body.result = q[1])
                        => fetch.result = q[2]

C22_Witness ==
    /\ fetch # null
    /\ fetch.pc = "done"
    /\ Len(fetch.answers) = 3
    /\ ~fetch.answers[1].throws
    /\ ~fetch.answers[1].ok
    /\ fetch.answers[1].body # Unparsable
    /\ fetch.answers[1].body # JsonNull
    /\ fetch.result = 500

\* ---------------------------------------------------------------------
\* the nonce the handler is to report for a result of the nonce query: the
\* quantity when the result is a hex quantity, and 0 when it has no digit
\* to parse; parseInt reads the leading E of "Error!" as the digit 14
ClaimedNonce(result) ==
    IF \E q \in HexQuantities : q[1] = result
    THEN (CHOOSE q \in HexQuantities : q[1] = result)[2]
    ELSE IF result = Str(<<"E", "r", "r", "o", "r", "!">>) THEN 14 ELSE 0

AddressAccepted(address) == address # "" /\ AddressFormatOK(address)

\* an upstream request threw or its body could not be parsed
UpstreamFault(ans) == ans.throws \/ ans.body = Unparsable

\* ... or its body parsed to null
UpstreamFaultOrNull(ans) ==
    ans.throws \/ ans.body = Unparsable \/ ans.body = JsonNull

\* the handler's classification, for a given reading of "upstream fault"
ErrorClasses(Fault(_)) ==
    api # null =>
        /\ Len(api.responses) <= 1
        /\ (api.pc = "done") = (Len(api.responses) = 1)
        /\ ~AddressAccepted(api.address) =>
              /\ api.pc = "done"
              /\ api.responses[1].status = 400
              /\ api.requests = <<>>
        /\ (/\ AddressAccepted(api.address)
            /\ \E k \in 1 .. Len(api.answers) : Fault(api.answers[k])) =>
              /\ api.pc = "done"
              /\ api.responses[1].status = 500
        /\ (/\ AddressAccepted(api.address)
            /\ api.pc = "done"
            /\ \A k \in 1 .. Len(api.answers) : ~Fault(api.answers[k])) =>
              /\ api.responses[1].status = 200
              /\ Len(api.answers) = 3

\* C24 as stated: the handler returns exactly one response per request; a
\* missing address or one that does not match 0x and 40 hexadecimal digits
\* yields status 400 with no upstream request issued; if any of the three
\* upstream requests throws or returns an unparsable body the handler
\* yields status 500 and never a 200 with partial counts; otherwise it
\* yields status 200.
C24_ErrorClasses == ErrorClasses(UpstreamFault)

\* C24, amended: as above, with status 500 also when the body of an
\* upstream request parses to null, and status 200 in every other case.
C24_ErrorClassesNullBody == ErrorClasses(UpstreamFaultOrNull)

C24_Witness ==
    /\ api # null
    /\ api.pc = "done"
    /\ Len(api.answers) = 2
    /\ ~api.answers[2].throws
    /\ api.answers[2].body = JsonNull
    /\ api.responses = <<ServerError>>

====
